---- MODULE Spec2Model ----
(***************************************************************************)
(* Model of the vcMiD presence bridge (src/silly.tsx): the descriptor      *)
(* cache, the activity synthesizer and the supervision of the single       *)
(* WebSocket, as an event-driven state machine.  One action is one task    *)
(* of the JavaScript event loop: an event handler run up to its first      *)
(* suspension on an external collaborator, or the continuation that runs   *)
(* when that collaborator answers.                                         *)
(***************************************************************************)
EXTENDS Integers, Sequences, FiniteSets, TLC

(***************************************************************************)
(* Bounds of the model.                                                    *)
(***************************************************************************)
\* inputs of a run: sockets created (calls of initShidd) plus inbound frames
\* delivered
MaxInputs == 3
\* the synthesizer's runs: the largest distance, in seconds, between a
\* timestamp of the payload and the time of the synthesis
MaxDelta == 125
\* the text bridge's runs: calls of start() (sockets created)
MaxStarts == 2
\* the text bridge's runs: the longest chat message, in characters
MaxLen == 4

(***************************************************************************)
(* Program constants.                                                      *)
(***************************************************************************)
PLAYING == 0
LISTENING == 2
WATCHING == 3
COMPETING == 5
ActivityFlagInstance == 1
\* "statusType: ActivityType | undefined": the undefined category
NoType == -1
version == "1.2.0"
SentinelName == "PreMiD"

\* JavaScript's null and undefined as published activities
Null == [kind |-> "null"]
Undefined == [kind |-> "undefined"]
\* an array element read past the end of the array
UndefinedElem == "\\undefined"

EmptyObj == [k \in {} |-> k]
Has(obj, k) == k \in DOMAIN obj
\* the property k |-> v when it is set, nothing otherwise
Opt(present, k, v) == IF present THEN k :> v ELSE EmptyObj
\* JavaScript truthiness of a category code (0 and undefined are falsy)
TruthyType(t) == t # NoType /\ t # 0
\* JavaScript truthiness of a timestamp (0 is falsy)
TruthyNum(obj, k) == Has(obj, k) /\ obj[k] # 0
TruthyStr(obj, k) == Has(obj, k) /\ obj[k] # ""

(***************************************************************************)
(* formatTime (src/silly.tsx:345-349)                                      *)
(***************************************************************************)
Digit == <<"0", "1", "2", "3", "4", "5", "6", "7", "8", "9">>

RECURSIVE NatToString(_)
NatToString(n) ==
    IF n < 10 THEN Digit[n + 1]
    ELSE NatToString(n \div 10) \o Digit[(n % 10) + 1]

\* Number.prototype.toString of an integer
toString(n) == IF n < 0 THEN "-" \o NatToString(-n) ELSE NatToString(n)

\* String.prototype.padStart(2, '0')
padStart(s) == IF Len(s) < 2 THEN "0" \o s ELSE s

\* the % of JavaScript: the remainder takes the sign of the dividend
JsRem(a, b) == IF a >= 0 THEN a % b ELSE -((-a) % b)

formatTime(seconds) ==
    LET minutes == seconds \div 60
        remainingSeconds == JsRem(seconds, 60)
    IN  padStart(toString(minutes)) \o ":" \o padStart(toString(remainingSeconds))

(***************************************************************************)
(* determineStatusType (src/silly.tsx:351-386).  res is the outcome of     *)
(* the metadata fetch: a network error, or a response with its ok flag     *)
(* and its body (undecodable, or a metadata document).                     *)
(***************************************************************************)
NetError == [kind |-> "error"]
Response(ok, body) == [kind |-> "response", ok |-> ok, body |-> body]
BadJson == [valid |-> FALSE]
Metadata(category) == [valid |-> TRUE, category |-> category]
MetadataTags(category, tags) == [valid |-> TRUE, category |-> category, tags |-> tags]

\* fetch() rejects, outside the try block: the rejection propagates
fetchRejects(res) == res.kind = "error"

\* the value the returned promise resolves to, for a fetch that resolved
determineStatusType(res) ==
    IF ~res.ok THEN PLAYING
    ELSE IF ~res.body.valid THEN PLAYING               \* res.json() throws: caught
    ELSE LET metadata == res.body IN
         CASE metadata.category = "socials" ->
                IF ~Has(metadata, "tags") THEN PLAYING  \* TypeError: caught
                ELSE IF "video" \in metadata.tags THEN WATCHING ELSE NoType
           [] metadata.category = "anime" ->
                IF ~Has(metadata, "tags") THEN PLAYING  \* TypeError: caught
                ELSE IF metadata.tags \cap {"video", "media", "streaming"} # {}
                     THEN WATCHING ELSE NoType
           [] metadata.category = "music" -> LISTENING
           [] metadata.category = "videos" -> WATCHING
           [] OTHER -> NoType

(***************************************************************************)
(* getAppAsset (src/silly.tsx:105-107): the host's asset lookup, an        *)
(* external collaborator; the image reference names the asset it is of.    *)
(***************************************************************************)
getAppAsset(appId, key) == <<"mp", appId, key>>

(***************************************************************************)
(* getActivity (src/silly.tsx:264-340), from the resolved descriptor on:   *)
(* pmActivity is the inbound payload, appInfo the descriptor getApp        *)
(* returned, st the settings store and nowSec Math.floor(Date.now()/1000)  *)
(* when the timestamps are reconciled.                                     *)
(***************************************************************************)
\* line 268
suppressedSentinelOnly(appInfo) == appInfo.name = SentinelName
suppressed(appInfo) == appInfo.name = "" \/ appInfo.name = SentinelName

activityType(appInfo) ==
    IF TruthyType(appInfo.statusType) THEN appInfo.statusType ELSE PLAYING

pmAssets(pmActivity) == IF Has(pmActivity, "assets") THEN pmActivity.assets ELSE EmptyObj

\* lines 278-282 and 286-291
baseAssets(pmActivity, type) ==
    LET a == pmAssets(pmActivity) IN
    [large_image |-> getAppAsset(pmActivity.application_id,
                        IF Has(a, "large_image") THEN a.large_image ELSE "guh"),
     small_image |-> getAppAsset(pmActivity.application_id,
                        IF Has(a, "small_image") THEN a.small_image ELSE "guhh"),
     small_text |-> IF TruthyStr(a, "small_text") THEN a.small_text ELSE "hello there :3"]
    @@ Opt(type = PLAYING, "large_text", "vcMiD v" \o version)

\* lines 294-304: the buttons and metadata properties set on the activity
buttonProps(pmActivity, appInfo, st) ==
    IF st.showButtons /\ Has(pmActivity, "buttons")
    THEN IF appInfo.name = "YouTube" /\ st.hideViewChannel
         THEN \* activity.metadata is not set at line 297: button_urls are never copied
              "buttons" :> << IF Len(pmActivity.buttons) > 0 THEN pmActivity.buttons[1]
                              ELSE UndefinedElem >>
         ELSE ("buttons" :> pmActivity.buttons)
              @@ Opt(Has(pmActivity, "metadata"), "metadata",
                     IF Has(pmActivity, "metadata") THEN pmActivity.metadata ELSE EmptyObj)
    ELSE EmptyObj

\* lines 307-327: the timestamps property set on the activity
timestampProps(pmActivity) ==
    IF ~Has(pmActivity, "timestamps") THEN EmptyObj
    ELSE LET ts == pmActivity.timestamps IN
         IF TruthyNum(ts, "start") /\ TruthyNum(ts, "end") THEN "timestamps" :> ts
         ELSE IF TruthyNum(ts, "start") THEN "timestamps" :> [start |-> ts.start]
         ELSE IF TruthyNum(ts, "end") THEN "timestamps" :> [end |-> ts.end]
         ELSE EmptyObj

\* lines 312-314 and 319-321: the caption that replaces assets.large_text
watchingCaption(pmActivity, type, nowSec) ==
    IF ~Has(pmActivity, "timestamps") \/ type # WATCHING THEN EmptyObj
    ELSE LET ts == pmActivity.timestamps IN
         IF TruthyNum(ts, "start") /\ TruthyNum(ts, "end") THEN EmptyObj
         ELSE IF TruthyNum(ts, "start")
              THEN "large_text" :> (formatTime(nowSec - ts.start) \o " elapsed")
         ELSE IF TruthyNum(ts, "end")
              THEN "large_text" :> (formatTime(ts.end - nowSec) \o " left")
         ELSE EmptyObj

\* lines 330-335: the keys deleted from the activity ("type" is skipped)
prunedKeysTypeIncluded(activity) ==
    {k \in DOMAIN activity :
        \/ k \in {"application_id", "name", "details", "state"} /\ activity[k] = ""
        \/ k \in {"flags", "type"} /\ activity[k] = 0
        \/ k = "buttons" /\ Len(activity[k]) = 0}
prunedKeys(activity) ==
    {k \in DOMAIN activity \ {"type"} :
        \/ k \in {"application_id", "name", "details", "state"} /\ activity[k] = ""
        \/ k = "flags" /\ activity[k] = 0
        \/ k = "buttons" /\ Len(activity[k]) = 0}

prune(activity) ==
    [k \in DOMAIN activity \ prunedKeys(activity) |-> activity[k]]

getActivity(pmActivity, appInfo, st, nowSec) ==
    IF suppressed(appInfo) THEN Undefined
    ELSE LET type == activityType(appInfo)
             activity ==
                 timestampProps(pmActivity)
                 @@ buttonProps(pmActivity, appInfo, st)
                 @@ [application_id |-> pmActivity.application_id,
                     name |-> appInfo.name,
                     type |-> type,
                     flags |-> ActivityFlagInstance,
                     assets |-> watchingCaption(pmActivity, type, nowSec)
                                @@ baseAssets(pmActivity, type)]
                 @@ Opt(Has(pmActivity, "details"), "details",
                        IF Has(pmActivity, "details") THEN pmActivity.details ELSE "")
                 @@ Opt(Has(pmActivity, "state"), "state",
                        IF Has(pmActivity, "state") THEN pmActivity.state ELSE "")
         IN  prune(activity)

(***************************************************************************)
(* The environment of the bridge: the applications the host knows, the     *)
(* payloads the companion sends, the answers of the metadata repository    *)
(* and the values the operator can give the settings.                      *)
(***************************************************************************)
AppIds == {"a1", "a2", "a3", "a4"}
\* lookupRpcApp (src/silly.tsx:84, 97): the name the host resolves each id to
RpcAppName == [a1 |-> "YouTube", a2 |-> "PreMiD", a3 |-> "", a4 |-> "Twitch"]

\* the setActivity payloads the companion sends in the bridge's runs
Payloads ==
    { [application_id |-> "a1", state |-> "", details |-> "d",
       buttons |-> <<"Watch", "Subscribe">>,
       metadata |-> [button_urls |-> <<"u1", "u2">>],
       assets |-> [large_image |-> "L", small_text |-> ""]],
      [application_id |-> "a2", state |-> "s"],
      [application_id |-> "a3", state |-> "s"] }

\* the answers of the metadata repository in the bridge's runs: one per
\* effect of determineStatusType on the bridge (rejection, Playing returned
\* from the catch, an inferred category, no category)
FetchOutcomes ==
    { NetError,
      Response(TRUE, BadJson),
      Response(TRUE, Metadata("music")),
      Response(TRUE, MetadataTags("anime", {"comics"})) }

StatusTypeOptions == {NoType, PLAYING, WATCHING, LISTENING, COMPETING}
SettingsSpace ==
    [showButtons : BOOLEAN, hideViewChannel : BOOLEAN, statusType : StatusTypeOptions]
\* the settings the operator moves between in the bridge's runs
OperatorSettings ==
    { [showButtons |-> FALSE, hideViewChannel |-> FALSE, statusType |-> NoType],
      [showButtons |-> TRUE, hideViewChannel |-> TRUE, statusType |-> COMPETING] }
\* Math.floor(Date.now() / 1000) when an activity is synthesized
Nows == {1000}

MessageTypes == {"getCurrentUser", "setActivity", "clearActivity", "ping"}

\* the accounts of the host: UserStore.getCurrentUser() returns one of them
Users == {"u1", "u2"}

(***************************************************************************)
(* State.                                                                  *)
(***************************************************************************)
VARIABLES
    started,        \* the host has started the plugin and not stopped it since
    ws,             \* the socket handle: 0 is undefined, n the n-th socket created
    readyState,     \* readyState[n]: the ready state of the n-th socket
    isReconnecting, \* the reconnect flag
    timers,         \* the pending 1-second probes of initShidd, oldest first,
                    \* each with what invoked its start()
    shown,          \* retry notifications shown and not yet clicked
    apps,           \* the descriptor cache: application id -> descriptor
    settings,       \* settings.store
    handlers,       \* the setActivity handlers suspended on a lookup
    published,      \* the activity of the last LOCAL_ACTIVITY_UPDATE dispatched
    dispatched,     \* the activities dispatched by the task that ran last, in order
    event,          \* the task that ran last
    nmsgs,          \* inbound frames delivered so far
    lookups,        \* lookups[id]: calls of lookupRpcApp for id so far
    user,           \* the host's current user (UserStore.getCurrentUser())
    currentUser,    \* currentUser[n]: the constant currentUser of the call of
                    \* initShidd that created the n-th socket
    source          \* the socket that delivered the setActivity frame the
                    \* presence published was synthesized from, 0 when no
                    \* presence is published

\* the state of the text bridge (src/vrcText.ts)
VARIABLES
    vrcStarted,     \* the host has started the text bridge and not stopped it since
    vrcWs,          \* its socket handle: 0 is undefined, n the n-th socket created
    vrcReadyState,  \* vrcReadyState[n]: the ready state of its n-th socket
    vrcTimers,      \* the pending 1-second probes of start(), oldest first: the
                    \* number of the call of start() each belongs to
    command,        \* the "connect" command is registered with the host
    sendListeners,  \* the pre-send listeners registered with the host: the
                    \* listener created by the n-th call of start() is n
    preSend,        \* this.preSend: 0 is undefined, n the listener of the n-th call
    override,       \* settings.store.override
    afterStop,      \* stop() has returned and start() was not invoked since
    vrcEvent        \* the task of the text bridge that ran last

presenceVars == <<started, ws, readyState, isReconnecting, timers, shown, apps,
                  settings, handlers, published, dispatched, event, nmsgs, lookups,
                  user, currentUser, source>>

vrcVars == <<vrcStarted, vrcWs, vrcReadyState, vrcTimers, command, sendListeners,
             preSend, override, afterStop, vrcEvent>>

vars == <<started, ws, readyState, isReconnecting, timers, shown, apps, settings,
          handlers, published, dispatched, event, nmsgs, lookups, user,
          currentUser, source, vrcStarted, vrcWs, vrcReadyState, vrcTimers,
          command, sendListeners, preSend, override, afterStop, vrcEvent>>

\* the text bridge before the host starts it
vrcInit ==
    /\ vrcStarted = FALSE
    /\ vrcWs = 0
    /\ vrcReadyState = <<>>
    /\ vrcTimers = <<>>
    /\ command = FALSE
    /\ sendListeners = {}
    /\ preSend = 0
    /\ override = FALSE
    /\ afterStop = FALSE
    /\ vrcEvent = [op |-> "load"]

Init ==
    /\ started = FALSE
    /\ ws = 0
    /\ readyState = <<>>
    /\ isReconnecting = FALSE
    /\ timers = <<>>
    /\ shown = 0
    /\ apps = EmptyObj
    /\ settings \in OperatorSettings
    /\ handlers = {}
    /\ published = Null
    /\ dispatched = <<>>
    /\ event = [op |-> "load"]
    /\ nmsgs = 0
    /\ lookups = [id \in AppIds |-> 0]
    /\ user = "u1"
    /\ currentUser = <<>>
    /\ source = 0
    /\ vrcInit

(***************************************************************************)
(* setActivity (src/silly.tsx:109-115) and clearActivity (256-262): one    *)
(* LOCAL_ACTIVITY_UPDATE on the host's bus, socketId "PreMiD".             *)
(***************************************************************************)
dispatch(activities) ==
    /\ dispatched' = activities
    /\ published' = IF activities = <<>> THEN published
                    ELSE activities[Len(activities)]

setActivity(activity) == dispatch(<<activity>>)

clearActivity == dispatch(<<Null>>)

(***************************************************************************)
(* WebSocket.close(): a connecting or open socket starts closing, a        *)
(* closing or closed one is left as it is.                                 *)
(***************************************************************************)
close(rs) == IF rs \in {"CONNECTING", "OPEN"} THEN "CLOSING" ELSE rs

\* line 205: if (ws) ws.close()
closePreviousSkipped(states, handle) == states
closePrevious(states, handle) ==
    IF handle # 0 THEN [states EXCEPT ![handle] = close(states[handle])] ELSE states

(***************************************************************************)
(* initShidd up to its await (src/silly.tsx:199-238): the previous socket  *)
(* is closed, a new one is created with its handlers, the 1-second probe   *)
(* is armed.  origin is what invoked this start().                         *)
(***************************************************************************)
initShidd(origin) ==
    /\ Len(readyState) + nmsgs < MaxInputs
    /\ currentUser' = Append(currentUser, [type |-> "currentUser", user |-> user])
    /\ readyState' = Append(closePrevious(readyState, ws), "CONNECTING")
    /\ ws' = Len(readyState) + 1
    /\ timers' = Append(timers, origin)

\* start() run by the host when the plugin is activated (191-193)
Start ==
    /\ ~started
    /\ started' = TRUE
    /\ initShidd("activation")
    /\ dispatch(<<>>)
    /\ event' = [op |-> "start"]
    /\ UNCHANGED <<isReconnecting, shown, apps, settings, handlers, nmsgs, lookups,
                   user, source>>

\* the effect of stop() on the bridge (195-197)
stopKeepsActivity == dispatch(<<>>)
stop == clearActivity

\* stop() run by the host when the plugin is deactivated
Stop ==
    /\ started
    /\ started' = FALSE
    /\ stop
    /\ source' = 0
    /\ event' = [op |-> "stop"]
    /\ UNCHANGED <<ws, readyState, isReconnecting, timers, shown, apps, settings,
                   handlers, nmsgs, lookups, user, currentUser>>

\* toolboxActions["Reconnect PreMiD"] (164-168)
Reconnect ==
    /\ started
    /\ isReconnecting' = TRUE
    /\ stop
    /\ initShidd("reconnect")
    /\ source' = 0
    /\ event' = [op |-> "reconnect"]
    /\ UNCHANGED <<started, shown, apps, settings, handlers, nmsgs, lookups, user>>

\* onClick of a retry notification (246-249)
NotificationClick ==
    /\ shown > 0
    /\ shown' = shown - 1
    /\ isReconnecting' = TRUE
    /\ initShidd("reconnect")
    /\ dispatch(<<>>)
    /\ event' = [op |-> "click"]
    /\ UNCHANGED <<started, apps, settings, handlers, nmsgs, lookups, user, source>>

(***************************************************************************)
(* initShidd after its await (238-253): the oldest pending probe fires     *)
(* and reads the ready state of the socket the handle holds now.           *)
(***************************************************************************)
connectionSuccessful == readyState[ws] = "OPEN"

\* lines 239 and 241
showsNotification(reconnecting) == ~connectionSuccessful /\ reconnecting

Timeout ==
    /\ timers # <<>>
    /\ timers' = Tail(timers)
    /\ shown' = IF showsNotification(isReconnecting) THEN shown + 1 ELSE shown
    /\ isReconnecting' = IF showsNotification(isReconnecting) THEN FALSE
                         ELSE isReconnecting
    /\ dispatch(<<>>)
    /\ event' = [op |-> "timeout", origin |-> Head(timers),
                 notified |-> showsNotification(isReconnecting)]
    /\ UNCHANGED <<started, ws, readyState, apps, settings, handlers, nmsgs, lookups,
                   user, currentUser, source>>

(***************************************************************************)
(* Socket events.                                                          *)
(***************************************************************************)
\* ws.onopen (208-210): the connection is established; a toast is shown
SocketOpen(s) ==
    /\ readyState[s] = "CONNECTING"
    /\ readyState' = [readyState EXCEPT ![s] = "OPEN"]
    /\ dispatch(<<>>)
    /\ event' = [op |-> "onopen"]
    /\ UNCHANGED <<started, ws, isReconnecting, timers, shown, apps, settings,
                   handlers, nmsgs, lookups, user, currentUser, source>>

\* ws.onclose (232-235)
oncloseKeepsActivity == dispatch(<<>>)
onclose == clearActivity

\* the activity published is a presence synthesized from a frame that a
\* socket created after s delivered
presenceOfLaterSocket(s) == source > s

\* the socket closes: the connection failed, the peer closed it, or the
\* closing handshake of a local close() ended
SocketClose(s) ==
    /\ readyState[s] # "CLOSED"
    /\ readyState' = [readyState EXCEPT ![s] = "CLOSED"]
    /\ onclose
    /\ source' = 0
    /\ event' = [op |-> "onclose", retractsLater |-> presenceOfLaterSocket(s)]
    /\ UNCHANGED <<started, ws, isReconnecting, timers, shown, apps, settings,
                   handlers, nmsgs, lookups, user, currentUser>>

(***************************************************************************)
(* getApp (src/silly.tsx:92-104).                                          *)
(***************************************************************************)
\* line 94: the cache holds a descriptor for the id
cacheHit(cache, applicationId) == applicationId \in DOMAIN cache

\* line 101: the category stored, given the one determineStatusType resolved
\* to and the settings store at that time
storedStatusType(type, st) == IF TruthyType(type) THEN type ELSE st.statusType

\* lines 97-101: the descriptor of the application; inferred (no field of the
\* program's object) keeps the category the inference produced, if any
descriptor(applicationId, type, st) ==
    [id |-> applicationId,
     name |-> RpcAppName[applicationId],
     statusType |-> storedStatusType(type, st),
     inferred |-> IF TruthyType(type) THEN type ELSE NoType]

\* line 102
cacheStore(cache, appInfo) ==
    [id \in DOMAIN cache \cup {appInfo.id} |->
        IF id = appInfo.id THEN appInfo ELSE cache[id]]

decodeFails(res) == res.kind = "response" /\ res.ok /\ ~res.body.valid

\* line 362: the response is not a success
notOk(res) == res.kind = "response" /\ ~res.ok

failureOf(res) ==
    IF fetchRejects(res) THEN "network"
    ELSE IF notOk(res) THEN "status"
    ELSE IF decodeFails(res) THEN "decode" ELSE "none"

(***************************************************************************)
(* ws.onmessage (212-230): a frame delivered on an open socket.  The       *)
(* handler of a setActivity frame runs getActivity up to its first         *)
(* suspension: the host lookup on a cache miss, the asset lookups on a     *)
(* hit; a suppressed descriptor returns before any asset lookup.  A        *)
(* handler suspended on the asset lookups has read the category at line    *)
(* 276; default (no variable of the program) keeps the default category    *)
(* configured at that time.                                                *)
(***************************************************************************)
\* ws.send(data) on the socket the handle holds: the frame goes out on an
\* open socket; a closing or closed socket discards it and a connecting one
\* throws
wsSend(data) ==
    IF readyState[ws] = "OPEN" THEN <<[on |-> ws, data |-> data]>> ELSE <<>>

\* line 218: the frame is the constant of the call of initShidd that created s
OnGetCurrentUser(s) ==
    /\ dispatch(<<>>)
    /\ event' = [op |-> "getCurrentUser", sent |-> wsSend(currentUser[s])]
    /\ UNCHANGED <<apps, handlers, lookups, source>>

OnClearActivity(s) ==
    /\ clearActivity
    /\ source' = 0
    /\ event' = [op |-> "clearActivity"]
    /\ UNCHANGED <<apps, handlers, lookups>>

OnUnknown(s) ==
    /\ dispatch(<<>>)
    /\ event' = [op |-> "ignored"]
    /\ UNCHANGED <<apps, handlers, lookups, source>>

OnSetActivity(s, data) ==
    LET id == data.application_id
        msg == nmsgs + 1
    IN  IF cacheHit(apps, id)
        THEN IF suppressed(apps[id])
             THEN /\ setActivity(getActivity(data, apps[id], settings, 0))
                  /\ source' = 0
                  /\ event' = [op |-> "setActivity", name |-> apps[id].name]
                  /\ UNCHANGED <<apps, handlers, lookups>>
             ELSE /\ handlers' = handlers \cup
                        {[msg |-> msg, sock |-> s, data |-> data, pc |-> "assets",
                          appInfo |-> apps[id], default |-> settings.statusType]}
                  /\ dispatch(<<>>)
                  /\ event' = [op |-> "setActivity"]
                  /\ UNCHANGED <<apps, lookups, source>>
        ELSE /\ handlers' = handlers \cup
                   {[msg |-> msg, sock |-> s, data |-> data, pc |-> "lookup"]}
             /\ lookups' = [lookups EXCEPT ![id] = @ + 1]
             /\ dispatch(<<>>)
             /\ event' = [op |-> "setActivity"]
             /\ UNCHANGED <<apps, source>>

OnMessage(s, type, data) ==
    /\ Len(readyState) + nmsgs < MaxInputs
    /\ readyState[s] = "OPEN"
    /\ nmsgs' = nmsgs + 1
    /\ CASE type = "getCurrentUser" -> OnGetCurrentUser(s)
         [] type = "setActivity" -> OnSetActivity(s, data)
         [] type = "clearActivity" -> OnClearActivity(s)
         [] OTHER -> OnUnknown(s)
    /\ UNCHANGED <<started, ws, readyState, isReconnecting, timers, shown, settings,
                   user, currentUser>>

(***************************************************************************)
(* getApp after its awaits (97-103): the host lookup and the metadata      *)
(* fetch of a suspended handler have answered.  A rejected fetch rejects   *)
(* getApp, getActivity and the handler in turn; otherwise the descriptor   *)
(* is stored and getActivity goes on to line 268.                          *)
(***************************************************************************)
LookupDone(h, res) ==
    /\ h \in handlers
    /\ h.pc = "lookup"
    /\ LET appInfo == descriptor(h.data.application_id, determineStatusType(res),
                                 settings)
       IN  IF fetchRejects(res)
           THEN /\ handlers' = handlers \ {h}
                /\ dispatch(<<>>)
                /\ event' = [op |-> "lookupDone", failure |-> failureOf(res)]
                /\ UNCHANGED <<apps, source>>
           ELSE /\ apps' = cacheStore(apps, appInfo)
                /\ event' = [op |-> "lookupDone", failure |-> failureOf(res),
                             name |-> appInfo.name]
                /\ IF suppressed(appInfo)
                   THEN /\ handlers' = handlers \ {h}
                        /\ setActivity(getActivity(h.data, appInfo, settings, 0))
                        /\ source' = 0
                   ELSE /\ handlers' = (handlers \ {h}) \cup
                              {[msg |-> h.msg, sock |-> h.sock, data |-> h.data,
                                pc |-> "assets", appInfo |-> appInfo,
                                default |-> settings.statusType]}
                        /\ dispatch(<<>>)
                        /\ UNCHANGED source
    /\ UNCHANGED <<started, ws, readyState, isReconnecting, timers, shown, settings,
                   nmsgs, lookups, user, currentUser>>

(***************************************************************************)
(* getActivity after its asset lookups (279-339) and the rest of the       *)
(* handler (223): the activity is completed, pruned and published.         *)
(***************************************************************************)
AssetsDone(h, nowSec) ==
    /\ h \in handlers
    /\ h.pc = "assets"
    /\ handlers' = handlers \ {h}
    /\ setActivity(getActivity(h.data, h.appInfo, settings, nowSec))
    /\ source' = h.sock
    /\ event' = [op |-> "assetsDone", name |-> h.appInfo.name,
                 inferred |-> h.appInfo.inferred, default |-> h.default,
                 data |-> h.data, now |-> nowSec]
    /\ UNCHANGED <<started, ws, readyState, isReconnecting, timers, shown, apps,
                   settings, nmsgs, lookups, user, currentUser>>

\* the operator edits the settings
ChangeSettings(st) ==
    /\ st # settings
    /\ settings' = st
    /\ dispatch(<<>>)
    /\ event' = [op |-> "settings"]
    /\ UNCHANGED <<started, ws, readyState, isReconnecting, timers, shown, apps,
                   handlers, nmsgs, lookups, user, currentUser, source>>

\* the operator switches to another account of the host
SwitchAccount(u) ==
    /\ u # user
    /\ user' = u
    /\ dispatch(<<>>)
    /\ event' = [op |-> "account"]
    /\ UNCHANGED <<started, ws, readyState, isReconnecting, timers, shown, apps,
                   settings, handlers, nmsgs, lookups, currentUser, source>>

Next ==
    \/ Start /\ UNCHANGED vrcVars
    \/ Stop /\ UNCHANGED vrcVars
    \/ Reconnect /\ UNCHANGED vrcVars
    \/ NotificationClick /\ UNCHANGED vrcVars
    \/ Timeout /\ UNCHANGED vrcVars
    \/ \E s \in DOMAIN readyState : SocketOpen(s) /\ UNCHANGED vrcVars
    \/ \E s \in DOMAIN readyState : SocketClose(s) /\ UNCHANGED vrcVars
    \/ \E s \in DOMAIN readyState, type \in MessageTypes \ {"setActivity"} :
          OnMessage(s, type, EmptyObj) /\ UNCHANGED vrcVars
    \/ \E s \in DOMAIN readyState, data \in Payloads :
          OnMessage(s, "setActivity", data) /\ UNCHANGED vrcVars
    \/ \E h \in handlers, res \in FetchOutcomes : LookupDone(h, res) /\ UNCHANGED vrcVars
    \/ \E h \in handlers, nowSec \in Nows : AssetsDone(h, nowSec) /\ UNCHANGED vrcVars
    \/ \E st \in OperatorSettings : ChangeSettings(st) /\ UNCHANGED vrcVars

\* the presence bridge, in a host where the text bridge is not started
Spec == Init /\ [][Next]_vars

\* the bridge in a host whose operator switches between accounts
AccountsNext ==
    \/ Next
    \/ \E u \in Users : SwitchAccount(u) /\ UNCHANGED vrcVars

AccountsSpec == Init /\ [][AccountsNext]_vars

(***************************************************************************)
(* Inputs of the synthesizer beyond those of the bridge's runs.            *)
(***************************************************************************)
OptField(k, present, values) ==
    {EmptyObj} \cup IF present THEN {k :> v : v \in values} ELSE {}

SynthPayloads ==
    { ("application_id" :> id) @@ d @@ st @@ b @@ m @@ t @@ a :
        id \in AppIds,
        d \in OptField("details", TRUE, {"", "d"}),
        st \in OptField("state", TRUE, {"", "s"}),
        b \in OptField("buttons", TRUE, {<<>>, <<"Watch", "Subscribe">>}),
        m \in OptField("metadata", TRUE, {[button_urls |-> <<"u1", "u2">>]}),
        t \in OptField("timestamps", TRUE,
                       {EmptyObj, [start |-> 875], [end |-> 1065],
                        [start |-> 875, end |-> 1065], [start |-> 0, end |-> 1065]}),
        a \in OptField("assets", TRUE,
                       {[large_image |-> "L", small_text |-> ""],
                        [small_image |-> "S", small_text |-> "t", large_text |-> "x"]}) }

(***************************************************************************)
(* The synthesizer on its own: the bridge is started, its socket is open   *)
(* and one setActivity frame for an application not yet cached has been    *)
(* delivered; its handler is suspended on the host lookup (line 97).  The  *)
(* runs that follow resolve the descriptor and synthesize the activity,    *)
(* over the payloads, the settings and the answers of the metadata         *)
(* repository below.                                                       *)
(***************************************************************************)
\* payloads that vary the optional fields, for an application that is
\* "YouTube" and one that is not
FieldPayloads ==
    { ("application_id" :> id) @@ d @@ st @@ b @@ m @@ a :
        id \in {"a1", "a4"},
        d \in OptField("details", TRUE, {"", "d"}),
        st \in OptField("state", TRUE, {"s"}),
        b \in OptField("buttons", TRUE, {<<>>, <<"Watch", "Subscribe">>}),
        m \in OptField("metadata", TRUE, {EmptyObj, [button_urls |-> <<"u1", "u2">>]}),
        a \in OptField("assets", TRUE, {[large_image |-> "L", large_text |-> "x"]}) }

\* the time of the synthesis, and the timestamps around it
SynthNows == {1000}
Starts == {0} \cup {now - d : now \in SynthNows, d \in 0..MaxDelta}
Ends == {0} \cup {now + d : now \in SynthNows, d \in 0..MaxDelta}
\* pairs: each of start and end zero or not
Pairs ==
    { [start |-> st, end |-> en] :
        st \in {0} \cup {now - MaxDelta : now \in SynthNows},
        en \in {0} \cup {now + MaxDelta : now \in SynthNows} }

TimedPayloads ==
    { [application_id |-> "a1", timestamps |-> ts] :
        ts \in {EmptyObj} \cup {[start |-> st] : st \in Starts}
               \cup {[end |-> en] : en \in Ends} \cup Pairs }

\* payloads of the two applications whose descriptor is suppressed
SuppressedPayloads == { [application_id |-> id, state |-> "s"] : id \in {"a2", "a3"} }

SynthRunPayloads == FieldPayloads \cup TimedPayloads \cup SuppressedPayloads

\* one answer per way out of determineStatusType
SynthFetchOutcomes ==
    { NetError,
      Response(FALSE, BadJson),
      Response(TRUE, BadJson),
      Response(TRUE, Metadata("music")),
      Response(TRUE, Metadata("videos")),
      Response(TRUE, Metadata("socials")),
      Response(TRUE, MetadataTags("socials", {"video"})),
      Response(TRUE, MetadataTags("anime", {"comics"})),
      Response(TRUE, Metadata("games")) }

SynthInit ==
    /\ started = TRUE
    /\ ws = 1
    /\ readyState = <<"OPEN">>
    /\ isReconnecting = FALSE
    /\ timers = <<>>
    /\ shown = 0
    /\ apps = EmptyObj
    /\ settings \in SettingsSpace
    /\ \E data \in SynthRunPayloads :
          /\ handlers = {[msg |-> 1, sock |-> 1, data |-> data, pc |-> "lookup"]}
          /\ lookups = [id \in AppIds |-> IF id = data.application_id THEN 1 ELSE 0]
    /\ published = Null
    /\ dispatched = <<>>
    /\ event = [op |-> "setActivity"]
    /\ nmsgs = 1
    /\ user = "u1"
    /\ currentUser = <<[type |-> "currentUser", user |-> "u1"]>>
    /\ source = 0
    /\ vrcInit

SynthNext ==
    \/ \E h \in handlers, res \in SynthFetchOutcomes :
          LookupDone(h, res) /\ UNCHANGED vrcVars
    \/ \E h \in handlers, nowSec \in SynthNows :
          AssetsDone(h, nowSec) /\ UNCHANGED vrcVars

SynthSpec == SynthInit /\ [][SynthNext]_vars

(***************************************************************************)
(* The text bridge (src/vrcText.ts).  A chat message is the sequence of    *)
(* its characters.                                                         *)
(***************************************************************************)
\* the characters of the chat messages: those of the prefixes, and the
\* space, which is also the whitespace trim() removes
Chars == {"=", "/", " "}

RECURSIVE Strings(_)
\* the strings of at most n characters
Strings(n) ==
    IF n = 0 THEN {<<>>}
    ELSE LET shorter == Strings(n - 1)
         IN  shorter \cup {Append(str, c) : str \in shorter, c \in Chars}

\* the chat messages the operator sends
Messages == Strings(MaxLen)

\* String.prototype.indexOf, from 1; 0 when pattern does not occur
indexOf(str, pattern) ==
    LET hits == {i \in 1..(Len(str) - Len(pattern) + 1) :
                    SubSeq(str, i, i + Len(pattern) - 1) = pattern}
    IN  IF hits = {} THEN 0 ELSE CHOOSE i \in hits : \A j \in hits : i <= j

\* String.prototype.replace(pattern, ''), pattern a string: the first
\* occurrence is removed
replace(str, pattern) ==
    LET i == indexOf(str, pattern)
    IN  IF i = 0 THEN str
        ELSE SubSeq(str, 1, i - 1) \o SubSeq(str, i + Len(pattern), Len(str))

RECURSIVE trimStart(_)
trimStart(str) ==
    IF str # <<>> /\ Head(str) = " " THEN trimStart(Tail(str)) ELSE str

RECURSIVE trimEnd(_)
trimEnd(str) ==
    IF str # <<>> /\ str[Len(str)] = " " THEN trimEnd(SubSeq(str, 1, Len(str) - 1))
    ELSE str

\* String.prototype.trim
trim(str) == trimEnd(trimStart(str))

\* String.prototype.startsWith
startsWith(str, prefix) ==
    Len(str) >= Len(prefix) /\ SubSeq(str, 1, Len(prefix)) = prefix

\* the prefixes "==" and "=/="
BridgePrefix == <<"=", "=">>
SilentPrefix == <<"=", "/", "=">>

\* sendTyping (175-177): the frame it sends
sendTyping(isTyping) ==
    [kind |-> "text", data |-> IF isTyping THEN "typing:true" ELSE "typing:false"]

\* sendWsMessage (164-172): the frames it sends; JSON.stringify(bridgeMsg) is
\* the frame of kind "json" with the fields of bridgeMsg
sendWsMessage(msg, pop, now) ==
    << [kind |-> "json", content |-> msg, sendNow |-> now, popNoise |-> pop],
       sendTyping(FALSE) >>

\* lines 99-101, 106-108 and 113-115 of onSend on a socket in state rs:
\* ws.send throws on a connecting socket, before msg.content is cleared, and
\* the host catches; a closing socket discards the frames
bridged(content, original, pop, rs) ==
    IF rs = "CONNECTING"
    THEN [content |-> original, frames |-> <<>>, stopped |-> FALSE]
    ELSE [content |-> <<>>,
          frames |-> IF rs = "OPEN"
                     THEN <<sendTyping(FALSE)>> \o sendWsMessage(content, pop, TRUE)
                     ELSE <<>>,
          stopped |-> FALSE]

\* onSend (85-118) of a message with content original, the socket of the
\* handle being in state rs and override mode being ov: the content the
\* message is left with, the frames that went out, whether stop() was called
onSend(original, rs, ov) ==
    IF rs = "CLOSED"
    THEN [content |-> original, frames |-> <<>>, stopped |-> TRUE]
    ELSE LET content == replace(replace(original, BridgePrefix), SilentPrefix)
             trimmed == trim(original)
         IN  IF ov
             THEN IF startsWith(trimmed, BridgePrefix)
                  THEN [content |-> content, frames |-> <<>>, stopped |-> FALSE]
                  ELSE bridged(content, original, TRUE, rs)
             ELSE IF startsWith(trimmed, BridgePrefix)
                  THEN bridged(content, original, TRUE, rs)
                  ELSE IF startsWith(trimmed, SilentPrefix)
                  THEN bridged(content, original, FALSE, rs)
                  ELSE [content |-> original, frames |-> <<>>, stopped |-> FALSE]

RECURSIVE preSendPipeline(_, _, _, _)
\* the host's pre-send pipeline: each of the n registered listeners calls
\* onSend on the same message object, one after the other
preSendPipeline(n, original, rs, ov) ==
    IF n = 0 THEN [content |-> original, frames |-> <<>>, stopped |-> FALSE]
    ELSE LET first == onSend(original, rs, ov)
             rest == preSendPipeline(n - 1, first.content, rs, ov)
         IN  [content |-> rest.content,
              frames |-> first.frames \o rest.frames,
              stopped |-> first.stopped \/ rest.stopped]

\* removePreSendListener(this.preSend) (122): the listeners left
removePreSendListener(listeners, handle) == listeners \ {handle}

\* start() up to its await (57-79): the previous socket is closed, a new one
\* is created, the command is registered and the 1-second probe is armed;
\* registered is the set of listeners when start() is invoked
vrcStart(registered) ==
    /\ Len(vrcReadyState) < MaxStarts
    /\ vrcReadyState' = Append(closePrevious(vrcReadyState, vrcWs), "CONNECTING")
    /\ vrcWs' = Len(vrcReadyState) + 1
    /\ command' = TRUE
    /\ vrcTimers' = Append(vrcTimers, Len(vrcReadyState) + 1)
    /\ sendListeners' = registered
    /\ afterStop' = FALSE

\* stop() followed by start(): toolboxActions.Connect (42-46) and the
\* execute of the "connect" command (63-67)
reconnect ==
    /\ vrcStart(removePreSendListener(sendListeners, preSend))
    /\ UNCHANGED <<vrcStarted, preSend, override>>

\* start() run by the host when the plugin is activated
VrcStart ==
    /\ ~vrcStarted
    /\ vrcStarted' = TRUE
    /\ vrcStart(sendListeners)
    /\ vrcEvent' = [op |-> "start"]
    /\ UNCHANGED <<preSend, override>>

\* stop() (120-123) run by the host when the plugin is deactivated
VrcStop ==
    /\ vrcStarted
    /\ vrcStarted' = FALSE
    /\ command' = FALSE
    /\ sendListeners' = removePreSendListener(sendListeners, preSend)
    /\ afterStop' = TRUE
    /\ vrcEvent' = [op |-> "stop"]
    /\ UNCHANGED <<vrcWs, vrcReadyState, vrcTimers, preSend, override>>

\* the "Connect" action of the toolbox, offered while the plugin is enabled
Connect ==
    /\ vrcStarted
    /\ reconnect
    /\ vrcEvent' = [op |-> "Connect"]

\* the "connect" command, offered while it is registered
ConnectCommand ==
    /\ command
    /\ reconnect
    /\ vrcEvent' = [op |-> "connect"]

\* start() after its await (79-82): the oldest pending probe fires and reads
\* the ready state of the socket the handle holds now
VrcTimeout ==
    /\ vrcTimers # <<>>
    /\ vrcTimers' = Tail(vrcTimers)
    /\ IF vrcReadyState[vrcWs] = "OPEN"
       THEN /\ sendListeners' = sendListeners \cup {Head(vrcTimers)}
            /\ preSend' = Head(vrcTimers)
       ELSE UNCHANGED <<sendListeners, preSend>>
    /\ vrcEvent' = [op |-> "timeout"]
    /\ UNCHANGED <<vrcStarted, vrcWs, vrcReadyState, command, override, afterStop>>

\* ws.onopen (73-75): a toast is shown
VrcSocketOpen(s) ==
    /\ vrcReadyState[s] = "CONNECTING"
    /\ vrcReadyState' = [vrcReadyState EXCEPT ![s] = "OPEN"]
    /\ vrcEvent' = [op |-> "onopen"]
    /\ UNCHANGED <<vrcStarted, vrcWs, vrcTimers, command, sendListeners, preSend,
                   override, afterStop>>

\* the socket closes; the text bridge has no close handler
VrcSocketClose(s) ==
    /\ vrcReadyState[s] # "CLOSED"
    /\ vrcReadyState' = [vrcReadyState EXCEPT ![s] = "CLOSED"]
    /\ vrcEvent' = [op |-> "onclose"]
    /\ UNCHANGED <<vrcStarted, vrcWs, vrcTimers, command, sendListeners, preSend,
                   override, afterStop>>

\* the execute of the "override" command (139-146)
SetOverride(value) ==
    /\ vrcStarted
    /\ value # override
    /\ override' = value
    /\ vrcEvent' = [op |-> "override"]
    /\ UNCHANGED <<vrcStarted, vrcWs, vrcReadyState, vrcTimers, command,
                   sendListeners, preSend, afterStop>>

\* the operator sends a chat message while a listener of the plugin is
\* registered: the host runs its pre-send listeners on it; a listener that
\* finds the socket closed calls stop() (86-89)
SendMessage(content) ==
    /\ sendListeners # {}
    /\ LET sent == preSendPipeline(Cardinality(sendListeners), content,
                                   vrcReadyState[vrcWs], override)
       IN  /\ vrcEvent' = [op |-> "send", original |-> content,
                           content |-> sent.content, frames |-> sent.frames,
                           listeners |-> Cardinality(sendListeners)]
           /\ IF sent.stopped
              THEN /\ command' = FALSE
                   /\ sendListeners' = removePreSendListener(sendListeners, preSend)
                   /\ afterStop' = TRUE
              ELSE UNCHANGED <<command, sendListeners, afterStop>>
    /\ UNCHANGED <<vrcStarted, vrcWs, vrcReadyState, vrcTimers, preSend, override>>

VrcNext ==
    \/ VrcStart /\ UNCHANGED presenceVars
    \/ VrcStop /\ UNCHANGED presenceVars
    \/ Connect /\ UNCHANGED presenceVars
    \/ ConnectCommand /\ UNCHANGED presenceVars
    \/ VrcTimeout /\ UNCHANGED presenceVars
    \/ \E s \in DOMAIN vrcReadyState : VrcSocketOpen(s) /\ UNCHANGED presenceVars
    \/ \E s \in DOMAIN vrcReadyState : VrcSocketClose(s) /\ UNCHANGED presenceVars
    \/ \E value \in BOOLEAN : SetOverride(value) /\ UNCHANGED presenceVars
    \/ \E content \in Messages : SendMessage(content) /\ UNCHANGED presenceVars

\* the text bridge, in a host where the presence bridge is not started
VrcSpecInit == Init /\ settings.statusType = NoType

VrcSpec == VrcSpecInit /\ [][VrcNext]_vars

(***************************************************************************)
(* Properties of the presence bridge.                                      *)
(***************************************************************************)

\* C1: whenever a socket fires its close event, whatever its state before
\* (connecting, open, or closing after a local close()), the close handler
\* dispatches exactly one update, "no activity", within the task of the event:
\* it precedes the publish of every message handled afterwards.
C1_CloseRetractsOnce ==
    event.op = "onclose" => dispatched = <<Null>> /\ published = Null

\* a socket has just closed while a setActivity handler was still suspended
C1_Witness ==
    /\ event.op = "onclose"
    /\ dispatched = <<Null>>
    /\ handlers # {}
    /\ \E s \in DOMAIN readyState : readyState[s] = "CLOSED"

\* C2: if the activity published last is a presence (neither null nor
\* undefined), the socket the handle holds is open.
C2_PresenceOnlyWhileOpen ==
    published \notin {Null, Undefined} => ws # 0 /\ readyState[ws] = "OPEN"

\* C3: the handler of a message completes before the handler of the next
\* message begins: a suspended handler is that of the last message delivered.
C3_HandlersRunToCompletion ==
    \A h \in handlers : h.msg = nmsgs

\* C4: the retry notification is never shown by a start() that the activation
\* of the plugin invoked.
C4_NoNotificationOnActivation ==
    ~(event.op = "timeout" /\ event.origin = "activation" /\ event.notified)

\* C5: at most one host lookup has been performed per application id, and
\* every resolution of an id returned the descriptor the cache holds for it.
C5_OneLookupPerApplication ==
    /\ \A id \in AppIds : lookups[id] <= 1
    /\ \A h \in handlers :
          h.pc = "assets" => h.appInfo = apps[h.data.application_id]

\* C6: stop() dispatches exactly one update, "no activity", and leaves the
\* socket handle, the sockets' ready states, the reconnect flag and the
\* descriptor cache as they were (and so the pending probes, the settings and
\* the suspended handlers).
C6_StopOnlyClears ==
    [][event'.op = "stop" =>
          /\ dispatched' = <<Null>>
          /\ published' = Null
          /\ UNCHANGED <<ws, readyState, isReconnecting, apps, timers, shown,
                         settings, handlers, nmsgs, lookups, user, currentUser>>]_vars

\* stop() has just run with the socket open, the reconnect flag set and a
\* descriptor cached
C6_Witness ==
    /\ event.op = "stop"
    /\ dispatched = <<Null>>
    /\ ws # 0 /\ readyState[ws] = "OPEN"
    /\ isReconnecting
    /\ apps # EmptyObj

\* C7: at most one socket is connecting or open: every socket other than the
\* one the handle holds is closing or closed.
C7_SingleLiveSocket ==
    /\ \A s \in DOMAIN readyState :
          s # ws => readyState[s] \in {"CLOSING", "CLOSED"}
    /\ Cardinality({s \in DOMAIN readyState :
                       readyState[s] \in {"CONNECTING", "OPEN"}}) <= 1

\* a restart while the first socket was open: it is closing, the second is open
C7_Witness ==
    /\ Len(readyState) >= 2
    /\ readyState[1] = "CLOSING"
    /\ ws = 2 /\ readyState[2] = "OPEN"

\* getActivity on a descriptor with an empty or sentinel name, over the
\* payloads, settings and categories of the synthesizer
SuppressedForAllInputs ==
    \A p \in SynthPayloads, st \in SettingsSpace, t \in StatusTypeOptions,
       n \in {"", SentinelName}, nowSec \in Nows :
       getActivity(p, [id |-> p.application_id, name |-> n, statusType |-> t,
                       inferred |-> NoType], st, nowSec) = Undefined

\* C8: getActivity returns undefined for a descriptor whose name is empty or
\* the sentinel "PreMiD", whatever the payload, the category and the settings,
\* and the handler of such a setActivity message dispatches that undefined
\* result, which is then what is published.
C8_SentinelSuppressed ==
    /\ SuppressedForAllInputs
    /\ (Has(event, "name") /\ event.name \in {"", SentinelName}) =>
          dispatched = <<Undefined>> /\ published = Undefined

\* a setActivity for the cached sentinel application has just been handled
C8_Witness ==
    /\ event.op = "setActivity"
    /\ Has(event, "name") /\ event.name = SentinelName
    /\ dispatched = <<Undefined>> /\ published = Undefined

\* a setActivity for the application with the empty name has just resolved
C8_WitnessEmptyName ==
    /\ event.op = "lookupDone"
    /\ Has(event, "name") /\ event.name = ""
    /\ published = Undefined

\* C9: a metadata fetch that fails with a network error, or whose body does
\* not decode, is caught: the handler goes on with a descriptor whose category
\* is the fallback, and publishes.
C9_FetchFailureCaught ==
    (event.op = "lookupDone" /\ event.failure \in {"network", "decode"}) =>
        /\ Has(event, "name")
        /\ \/ dispatched # <<>>
           \/ \E h \in handlers :
                 /\ h.pc = "assets"
                 /\ h.appInfo.inferred = NoType
                 /\ h.appInfo.statusType = settings.statusType

\* C10: the category code of a synthesized activity is the inferred category
\* when the inference produced Listening or Watching, and otherwise the default
\* category configured when getActivity set the category of that activity
\* (Playing when none is configured).
C10_CategoryFromCurrentDefault ==
    event.op = "assetsDone" =>
        published.type =
            IF event.inferred \in {LISTENING, WATCHING} THEN event.inferred
            ELSE IF event.default = NoType THEN PLAYING
            ELSE event.default

\* C11: when the metadata fetch of an application returns a non-success
\* status, the descriptor stored in the cache has category Playing and the
\* activity synthesized from it gets category code 0, whatever the default
\* category configured (a category left unset in the descriptor is counted
\* as Playing here, as it synthesizes to 0).
C11_NonSuccessIsPlaying ==
    (event.op = "lookupDone" /\ event.failure = "status") =>
        \A h \in handlers :
            (h.pc = "assets" /\ h.appInfo.name = event.name) =>
                /\ apps[h.data.application_id].statusType \in {PLAYING, NoType}
                /\ activityType(h.appInfo) = PLAYING

(***************************************************************************)
(* Properties of the synthesizer.                                          *)
(***************************************************************************)
\* the timestamps object of a payload, empty when it has none
timestampsOf(data) == IF Has(data, "timestamps") THEN data.timestamps ELSE EmptyObj

\* C12: the timestamps of a synthesized activity are exactly those of start
\* and end that the payload carries, with their values, whatever the values:
\* the pair, the one present, or no timestamps field when there is none.
C12_TimestampsCopied ==
    event.op = "assetsDone" =>
        LET ts == timestampsOf(event.data) IN
        IF DOMAIN ts = {} THEN ~Has(published, "timestamps")
        ELSE Has(published, "timestamps") /\ published.timestamps = ts

\* the value of a top-level field is falsy, an empty string or an empty
\* sequence (the objects assets, metadata and timestamps are none of these)
emptyField(activity, k) ==
    CASE k \in {"application_id", "name", "details", "state"} -> activity[k] = ""
      [] k \in {"type", "flags"} -> activity[k] = 0
      [] k = "buttons" -> activity[k] = <<>>
      [] OTHER -> FALSE

\* C13: every activity getActivity returns has the category code, also when
\* it is 0 (Playing), and no other top-level field whose value is falsy, an
\* empty string or an empty sequence.
C13_PrunedButType ==
    event.op = "assetsDone" =>
        /\ Has(published, "type")
        /\ \A k \in DOMAIN published \ {"type"} : ~emptyField(published, k)

\* a Playing activity has been synthesized from a payload with empty details
\* and an empty list of buttons, the buttons being enabled
C13_Witness ==
    /\ event.op = "assetsDone"
    /\ Has(published, "type") /\ published.type = PLAYING
    /\ Has(event.data, "details") /\ event.data.details = ""
    /\ Has(event.data, "buttons") /\ event.data.buttons = <<>>
    /\ settings.showButtons /\ ~settings.hideViewChannel
    /\ ~Has(published, "details") /\ ~Has(published, "buttons")

\* the button URLs a payload carries, none when it has no metadata envelope
\* or the envelope has none
buttonUrlsOf(data) ==
    IF Has(data, "metadata") /\ Has(data.metadata, "button_urls")
    THEN data.metadata.button_urls ELSE <<>>

\* C14: with the buttons enabled and a payload that has buttons: for the
\* application "YouTube" with hide-view-channel enabled the activity has only
\* the first label and, when the payload carries button URLs, only the first
\* URL; in every other case the buttons and the metadata envelope are those
\* of the payload (an empty list of buttons being pruned).
C14_ButtonsAndUrls ==
    (event.op = "assetsDone" /\ settings.showButtons /\ Has(event.data, "buttons")) =>
        IF event.name = "YouTube" /\ settings.hideViewChannel
        THEN Len(event.data.buttons) > 0 =>
                /\ Has(published, "buttons")
                /\ published.buttons = <<event.data.buttons[1]>>
                /\ Len(buttonUrlsOf(event.data)) > 0 =>
                      /\ Has(published, "metadata")
                      /\ published.metadata = [button_urls |-> <<buttonUrlsOf(event.data)[1]>>]
        ELSE /\ IF event.data.buttons = <<>> THEN ~Has(published, "buttons")
                ELSE Has(published, "buttons") /\ published.buttons = event.data.buttons
             /\ IF Has(event.data, "metadata")
                THEN Has(published, "metadata") /\ published.metadata = event.data.metadata
                ELSE ~Has(published, "metadata")

\* n in at least two digits
twoDigits(n) == IF n < 10 THEN "0" \o NatToString(n) ELSE NatToString(n)
\* "MM:SS" of d seconds, d >= 0
minutesSeconds(d) == twoDigits(d \div 60) \o ":" \o twoDigits(d % 60)
\* the caption of the large image, "" when the activity has none
captionOf(activity) ==
    IF Has(activity.assets, "large_text") THEN activity.assets.large_text ELSE ""

\* C15: for category Watching and a payload with only start = now - d, d >= 0,
\* the caption of the large image is "MM:SS elapsed", MM = floor(d / 60) and
\* SS = d mod 60 in two digits; with only end = now + d it is "MM:SS left";
\* the caption is the branding "vcMiD v<version>" exactly when the category is
\* Playing.
C15_WatchingCaption ==
    event.op = "assetsDone" =>
        LET ts == timestampsOf(event.data) IN
        /\ (captionOf(published) = "vcMiD v" \o version) <=> (published.type = PLAYING)
        /\ (published.type = WATCHING /\ DOMAIN ts = {"start"} /\ event.now - ts.start >= 0) =>
              captionOf(published) = minutesSeconds(event.now - ts.start) \o " elapsed"
        /\ (published.type = WATCHING /\ DOMAIN ts = {"end"} /\ ts.end - event.now >= 0) =>
              captionOf(published) = minutesSeconds(ts.end - event.now) \o " left"

(***************************************************************************)
(* Properties of the presence bridge: the reply to getCurrentUser and the  *)
(* events of a superseded socket.                                          *)
(***************************************************************************)
\* C16: the handler of a getCurrentUser message sends exactly one frame, on
\* the socket the handle holds, {type: "currentUser", user: u} with u the
\* host's current user when the message is handled, and dispatches nothing.
C16_ReplyWithCurrentUser ==
    event.op = "getCurrentUser" =>
        /\ event.sent = <<[on |-> ws, data |-> [type |-> "currentUser", user |-> user]]>>
        /\ dispatched = <<>>

\* C20: the close event of a superseded socket never retracts a presence
\* that was published from a setActivity message received on a later socket.
C20_OldCloseKeepsNewPresence ==
    event.op = "onclose" => ~event.retractsLater

(***************************************************************************)
(* Properties of the text bridge.                                          *)
(***************************************************************************)
\* the JSON frames among the frames a task sent
jsonFrames(frames) == SelectSeq(frames, LAMBDA f : f.kind = "json")
\* str without its first n characters
dropFirst(str, n) == SubSeq(str, n + 1, Len(str))

\* C17: with the socket open, override mode off and the listener registered,
\* a chat message that starts with "==" causes exactly one JSON frame, with
\* the message less that prefix as content, sendNow and popNoise true, and
\* its content is cleared; one that starts with "=/=" likewise with popNoise
\* false; one with neither prefix (also after trimming) is left as it is and
\* causes no frame.
C17_PrefixRouting ==
    (/\ vrcEvent.op = "send"
     /\ vrcReadyState[vrcWs] = "OPEN"
     /\ ~override
     /\ vrcEvent.listeners = 1) =>
        LET original == vrcEvent.original IN
        IF startsWith(original, BridgePrefix)
        THEN /\ jsonFrames(vrcEvent.frames) =
                   <<[kind |-> "json", content |-> dropFirst(original, 2),
                      sendNow |-> TRUE, popNoise |-> TRUE]>>
             /\ vrcEvent.content = <<>>
        ELSE IF startsWith(original, SilentPrefix)
        THEN /\ jsonFrames(vrcEvent.frames) =
                   <<[kind |-> "json", content |-> dropFirst(original, 3),
                      sendNow |-> TRUE, popNoise |-> FALSE]>>
             /\ vrcEvent.content = <<>>
        ELSE (~startsWith(trim(original), BridgePrefix)
              /\ ~startsWith(trim(original), SilentPrefix)) =>
                /\ vrcEvent.frames = <<>>
                /\ vrcEvent.content = original

\* C18: after stop() has returned and until start() is invoked again,
\* neither the "connect" command nor a pre-send listener of the plugin is
\* registered.
C18_StopTearsDown ==
    afterStop => ~command /\ sendListeners = {}

\* C19: at most one pre-send listener of the plugin is registered, and a
\* chat message causes at most one JSON frame.
C19_SingleListener ==
    /\ Cardinality(sendListeners) <= 1
    /\ vrcEvent.op = "send" => Len(jsonFrames(vrcEvent.frames)) <= 1

====
